---- MODULE Spec2Model ----
(***************************************************************************)
(* Model of uniauth/models.py: the UserProfile / LinkedEmail / Institution *)
(* / InstitutionAccount tables with their CASCADE relations, and the two   *)
(* post_save receivers of the user model, create_user_profile and          *)
(* clear_old_tmp_users.                                                    *)
(*                                                                         *)
(* Every database statement is one atomic step (autocommit); a request     *)
(* handler (Procs) that saves a new user runs, inline and in order, the    *)
(* INSERT of the user, create_user_profile (INSERT profile, INSERT email)  *)
(* and clear_old_tmp_users (the queryset's SELECT, then its DELETE).  The  *)
(* clock may advance between any two statements.  Time is counted in       *)
(* ticks, TicksPerDay to the calendar day; a username is kept as whether   *)
(* it starts with "tmp-".                                                  *)
(*                                                                         *)
(* SpecEvents: users are created and saved, one event at a time.           *)
(* SpecFaults: user-created events, whose statements may fail.             *)
(* Spec: user-created events and the flows of the other tables.            *)
(* SpecConcurrent: user-created events of two handlers, interleaved.       *)
(***************************************************************************)
EXTENDS Integers, FiniteSets

\* ---------------------------------------------------------------- bounds
MaxUsers == 3       \* user rows ever inserted (primary keys 1..MaxUsers)
MaxTime == 4        \* the clock runs over 0..MaxTime ticks
MaxWindow == 1      \* settings.PASSWORD_RESET_TIMEOUT_DAYS ranges over 0..MaxWindow
MaxLinkedUsers == 2 \* user rows ever inserted where the other tables' flows run too

\* replace(hour=0, minute=0, second=0, microsecond=0) works on calendar days;
\* a day is TicksPerDay clock ticks.
TicksPerDay == 2

Procs == {"r1", "r2"}                 \* concurrent request handlers
UserIds == 1..MaxUsers
Addresses == {"a@x.com"}              \* non-empty email addresses
Emails == {""} \cup Addresses         \* user.email, possibly empty
Slugs == {"yale"}                     \* Institution.slug (unique)

VARIABLES
    now,              \* timezone.now()
    timeout_days,     \* settings.PASSWORD_RESET_TIMEOUT_DAYS
    has_date_joined,  \* hasattr(user_model, 'date_joined')
    users,            \* user table: pk -> [tmp, date_joined]
    next_user_id,     \* next primary key of the user table
    profiles,         \* UserProfile rows [id, user]
    next_profile_id,  \* next primary key of UserProfile
    emails,           \* LinkedEmail rows [profile, address, is_verified]
    institutions,     \* Institution rows, by slug
    accounts,         \* InstitutionAccount rows [profile, institution]
    pc,               \* where each request handler is in its save()
    instance,         \* the in-memory user instance passed to the receivers
    profile,          \* create_user_profile's local `profile` (its pk, 0: none)
    sweep_now,        \* the timezone.now() clear_old_tmp_users read
    collected,        \* rows the queryset's delete() collected
    result            \* how the handler's last save() ended

vars == <<now, timeout_days, has_date_joined, users, next_user_id, profiles,
          next_profile_id, emails, institutions, accounts, pc, instance,
          profile, sweep_now, collected, result>>

tables == <<users, next_user_id, profiles, next_profile_id, emails,
            institutions, accounts>>
config == <<timeout_days, has_date_joined>>

NoInstance == [id |-> 0, tmp |-> FALSE, email |-> "", date_joined |-> 0]
NoRows == [users |-> {}, profiles |-> {}, emails |-> {}, accounts |-> {}]

\* ------------------------------------------------------------ pure parts
\* datetime.replace(hour=0, minute=0, second=0, microsecond=0)
FloorToMidnight(t) == (t \div TicksPerDay) * TicksPerDay

\* timedelta(days=settings.PASSWORD_RESET_TIMEOUT_DAYS)
TimeoutDelta == timeout_days * TicksPerDay

\* tmp_expire_date = (timezone.now() - timeout_days).replace(hour=0, ...)
TmpExpireDateNoFloor(t) == t - TimeoutDelta
TmpExpireDateInclusiveDay(t) == FloorToMidnight(t - TimeoutDelta) + TicksPerDay
TmpExpireDate(t) == FloorToMidnight(t - TimeoutDelta)

\* username__startswith='tmp-'
StartsWithTmpAny(row) == TRUE
StartsWithTmp(row) == row.tmp

\* user_model.objects.filter(username__startswith='tmp-',
\*                           date_joined__lt=tmp_expire_date)
FilterAnyTmp(cutoff) ==
    {u \in DOMAIN users : StartsWithTmp(users[u])}
FilterOldTmp(cutoff) ==
    {u \in DOMAIN users : StartsWithTmp(users[u]) /\ users[u].date_joined < cutoff}

\* on_delete=CASCADE, as delete() collects it: the profiles of the users, the
\* linked emails and institution accounts of those profiles.
CascadeOfProfiles(ps) ==
    [profiles |-> ps,
     emails   |-> {e \in emails : e.profile \in {q.id : q \in ps}},
     accounts |-> {a \in accounts : a.profile \in {q.id : q \in ps}}]

CascadeOfUsers(us) ==
    LET c == CascadeOfProfiles({q \in profiles : q.user \in us})
    IN  [users |-> us, profiles |-> c.profiles, emails |-> c.emails,
         accounts |-> c.accounts]

\* The tables once the collected rows are deleted by primary key (a row that
\* is already gone is no error).
UsersWithout(rows) == [u \in (DOMAIN users) \ rows.users |-> users[u]]
ProfilesWithout(rows) == profiles \ rows.profiles
EmailsWithout(rows) == emails \ rows.emails
AccountsWithout(rows) == accounts \ rows.accounts

\* The foreign keys (null=False, enforced by the database): a delete that
\* would leave a row pointing at a deleted row raises IntegrityError.
ForeignKeysHold(us, ps, es, as, is) ==
    /\ \A q \in ps : q.user \in DOMAIN us
    /\ \A e \in es : e.profile \in {q.id : q \in ps}
    /\ \A a \in as : /\ a.profile \in {q.id : q \in ps}
                     /\ a.institution \in is

\* `if created:` of create_user_profile
BootstrapRunsAlways(created) == TRUE
BootstrapRuns(created) == created

\* `if profile and instance.email:`
SeedsEmail(inst) == inst.email # ""

\* is_verified=True of the seeded LinkedEmail
SeededUnverified(p, inst) ==
    [profile |-> p, address |-> inst.email, is_verified |-> FALSE]
SeededEmail(p, inst) ==
    [profile |-> p, address |-> inst.email, is_verified |-> TRUE]

\* `if created:` and `if hasattr(user_model, 'date_joined'):` of
\* clear_old_tmp_users
SweepRunsNever(created) == FALSE
SweepRuns(created) == created /\ has_date_joined

\* ------------------------------------------------------------------ Init
Init ==
    /\ now = 0
    /\ timeout_days \in 0..MaxWindow
    /\ has_date_joined \in BOOLEAN
    /\ users = [u \in {} |-> [tmp |-> FALSE, date_joined |-> 0]]
    /\ next_user_id = 1
    /\ profiles = {}
    /\ next_profile_id = 1
    /\ emails = {}
    /\ institutions = {}
    /\ accounts = {}
    /\ pc = [p \in Procs |-> "idle"]
    /\ instance = [p \in Procs |-> NoInstance]
    /\ profile = [p \in Procs |-> 0]
    /\ sweep_now = [p \in Procs |-> 0]
    /\ collected = [p \in Procs |-> NoRows]
    /\ result = [p \in Procs |-> "none"]


\* The state one user-created event leaves when it ran alone at time 0 and is
\* over: user 1, its profile, and its seeded email if it carried one.
SettledInit ==
    /\ now = 0
    /\ timeout_days \in 0..MaxWindow
    /\ has_date_joined \in BOOLEAN
    /\ \E tmp \in BOOLEAN :
          users = [u \in {1} |-> [tmp |-> tmp, date_joined |-> 0]]
    /\ next_user_id = 2
    /\ profiles = {[id |-> 1, user |-> 1]}
    /\ next_profile_id = 2
    /\ \E email \in Emails :
          emails = IF SeedsEmail([email |-> email])
                   THEN {SeededEmail(1, [email |-> email])} ELSE {}
    /\ institutions = {}
    /\ accounts = {}
    /\ pc = [p \in Procs |-> "idle"]
    /\ instance = [p \in Procs |-> NoInstance]
    /\ profile = [p \in Procs |-> 0]
    /\ sweep_now = [p \in Procs |-> 0]
    /\ collected = [p \in Procs |-> NoRows]
    /\ result = [p \in Procs |-> IF p = "r1" THEN "ok" ELSE "none"]

\* --------------------------------------------------------------- actions
\* The clock advances, between any two statements.
Tick ==
    /\ now < MaxTime
    /\ now' = now + 1
    /\ UNCHANGED <<config, tables, pc, instance, profile, sweep_now, collected,
                   result>>

\* Signal.send calls the receivers in the order they were connected:
\* create_user_profile, then clear_old_tmp_users.  The receiver a save()
\* enters first, given post_save's `created` flag.
AfterBootstrap(created) == IF SweepRuns(created) THEN "sweep" ELSE "idle"
FirstReceiver(created) ==
    IF BootstrapRuns(created) THEN "profile" ELSE AfterBootstrap(created)

\* The handler leaves its save(): locals are dropped.
Return(p, how) ==
    /\ pc' = [pc EXCEPT ![p] = "idle"]
    /\ result' = [result EXCEPT ![p] = how]
    /\ instance' = [instance EXCEPT ![p] = NoInstance]
    /\ profile' = [profile EXCEPT ![p] = 0]
    /\ sweep_now' = [sweep_now EXCEPT ![p] = 0]
    /\ collected' = [collected EXCEPT ![p] = NoRows]

\* The handler moves on to its next statement.
Goto(p, where) ==
    IF where = "idle"
    THEN Return(p, "ok")
    ELSE /\ pc' = [pc EXCEPT ![p] = where]
         /\ result' = [result EXCEPT ![p] = "none"]

\* save() of a new user: the INSERT, date_joined defaulting to timezone.now();
\* post_save follows with created=True.
CreateUser(p, tmp, email) ==
    /\ pc[p] = "idle"
    /\ next_user_id <= MaxUsers
    /\ LET row == [tmp |-> tmp,
                   date_joined |-> IF has_date_joined THEN now ELSE 0]
       IN  /\ users' = [u \in (DOMAIN users) \cup {next_user_id} |->
                          IF u = next_user_id THEN row ELSE users[u]]
           /\ instance' = [instance EXCEPT ![p] =
                             [id |-> next_user_id, tmp |-> tmp, email |-> email,
                              date_joined |-> row.date_joined]]
    /\ next_user_id' = next_user_id + 1
    /\ pc' = [pc EXCEPT ![p] = FirstReceiver(TRUE)]
    /\ result' = [result EXCEPT ![p] =
                    IF FirstReceiver(TRUE) = "idle" THEN "ok" ELSE "none"]
    /\ UNCHANGED <<now, config, profiles, next_profile_id, emails, institutions,
                   accounts, profile, sweep_now, collected>>

\* save() of an existing user, whose in-memory instance carries `email`: the
\* UPDATE (the row's tmp- prefix and date_joined stay); post_save follows
\* with created=False, and both receivers return at once.
UpdateUser(p, u, email) ==
    /\ pc[p] = "idle"
    /\ u \in DOMAIN users
    /\ users' = users
    /\ IF FirstReceiver(FALSE) = "idle"
       THEN /\ result' = [result EXCEPT ![p] = "ok"]
            /\ UNCHANGED <<pc, instance>>
       ELSE /\ pc' = [pc EXCEPT ![p] = FirstReceiver(FALSE)]
            /\ result' = [result EXCEPT ![p] = "none"]
            /\ instance' = [instance EXCEPT ![p] =
                              [id |-> u, tmp |-> users[u].tmp, email |-> email,
                               date_joined |-> users[u].date_joined]]
    /\ UNCHANGED <<now, config, next_user_id, profiles, next_profile_id, emails,
                   institutions, accounts, profile, sweep_now, collected>>

\* profile = UserProfile.objects.create(user=instance).  The user row may be
\* gone by now (foreign key), or have a profile already (OneToOneField):
\* IntegrityError, which leaves the receiver and save().
CreateProfile(p) ==
    /\ pc[p] = "profile"
    /\ IF /\ instance[p].id \in DOMAIN users
          /\ \A q \in profiles : q.user # instance[p].id
       THEN /\ profiles' = profiles \cup
                             {[id |-> next_profile_id, user |-> instance[p].id]}
            /\ next_profile_id' = next_profile_id + 1
            /\ LET next == IF SeedsEmail(instance[p]) THEN "email"
                           ELSE AfterBootstrap(TRUE)
               IN  /\ Goto(p, next)
                   /\ IF next = "idle" THEN TRUE
                      ELSE /\ profile' = [profile EXCEPT ![p] = next_profile_id]
                           /\ UNCHANGED <<instance, sweep_now, collected>>
       ELSE /\ Return(p, "raised")
            /\ UNCHANGED <<profiles, next_profile_id>>
    /\ UNCHANGED <<now, config, users, next_user_id, emails, institutions,
                   accounts>>

\* LinkedEmail.objects.create(profile=profile, address=instance.email,
\*                            is_verified=True)
CreateEmail(p) ==
    /\ pc[p] = "email"
    /\ IF profile[p] \in {q.id : q \in profiles}
       THEN /\ emails' = emails \cup {SeededEmail(profile[p], instance[p])}
            /\ Goto(p, AfterBootstrap(TRUE))
            /\ IF AfterBootstrap(TRUE) = "idle" THEN TRUE
               ELSE UNCHANGED <<instance, profile, sweep_now, collected>>
       ELSE /\ Return(p, "raised")
            /\ UNCHANGED emails
    /\ UNCHANGED <<now, config, users, next_user_id, profiles, next_profile_id,
                   institutions, accounts>>

\* clear_old_tmp_users, first half: timezone.now() is read, tmp_expire_date
\* computed, and delete() evaluates the queryset and collects the rows the
\* cascade reaches.
SweepSelect(p) ==
    /\ pc[p] = "sweep"
    /\ sweep_now' = [sweep_now EXCEPT ![p] = now]
    /\ collected' = [collected EXCEPT ![p] =
                       CascadeOfUsers(FilterOldTmp(TmpExpireDate(now)))]
    /\ pc' = [pc EXCEPT ![p] = "delete"]
    /\ UNCHANGED <<now, config, tables, instance, profile, result>>

\* clear_old_tmp_users, second half: delete() deletes the collected rows by
\* primary key in one transaction.  A row that now points at a collected row
\* and was not collected itself fails the foreign key: the transaction rolls
\* back and IntegrityError leaves the receiver and save().
SweepDelete(p) ==
    /\ pc[p] = "delete"
    /\ LET rows == collected[p]
       IN  IF ForeignKeysHold(UsersWithout(rows), ProfilesWithout(rows),
                              EmailsWithout(rows), AccountsWithout(rows),
                              institutions)
           THEN /\ users' = UsersWithout(rows)
                /\ profiles' = ProfilesWithout(rows)
                /\ emails' = EmailsWithout(rows)
                /\ accounts' = AccountsWithout(rows)
                /\ Return(p, "ok")
           ELSE /\ Return(p, "raised")
                /\ UNCHANGED <<users, profiles, emails, accounts>>
    /\ UNCHANGED <<now, config, next_user_id, next_profile_id, institutions>>

\* ---------------------------------------------------------- store failures
\* The database fails the statement (connection lost, disk full, ...): the
\* exception leaves the receiver, Signal.send and save(); nothing is written.
CreateProfileFailsSwallowed(p) ==
    /\ pc[p] = "profile"
    /\ Goto(p, AfterBootstrap(TRUE))
    /\ IF AfterBootstrap(TRUE) = "idle" THEN TRUE
       ELSE UNCHANGED <<instance, profile, sweep_now, collected>>
    /\ UNCHANGED <<now, config, tables>>
CreateProfileFails(p) ==
    /\ pc[p] = "profile"
    /\ Return(p, "raised")
    /\ UNCHANGED <<now, config, tables>>

CreateEmailFails(p) ==
    /\ pc[p] = "email"
    /\ Return(p, "raised")
    /\ UNCHANGED <<now, config, tables>>

SweepDeleteFailsSwallowed(p) ==
    /\ pc[p] = "delete"
    /\ Return(p, "ok")
    /\ UNCHANGED <<now, config, tables>>
SweepDeleteFails(p) ==
    /\ pc[p] = "delete"
    /\ Return(p, "raised")
    /\ UNCHANGED <<now, config, tables>>

\* ------------------------------------------------- the other tables' flows
locals == <<pc, instance, profile, sweep_now, collected, result>>

\* A LinkedEmail added later (is_verified defaults to False).
AddLinkedEmail(q, addr) ==
    /\ q \in {r.id : r \in profiles}
    /\ emails' = emails \cup {[profile |-> q, address |-> addr, is_verified |-> FALSE]}
    /\ UNCHANGED <<now, config, users, next_user_id, profiles, next_profile_id,
                   institutions, accounts, locals>>

\* Institution rows; slug is unique.
CreateInstitution(s) ==
    /\ s \notin institutions
    /\ institutions' = institutions \cup {s}
    /\ UNCHANGED <<now, config, users, next_user_id, profiles, next_profile_id,
                   emails, accounts, locals>>

\* InstitutionAccount rows; both foreign keys are null=False.
CreateAccount(q, s) ==
    /\ q \in {r.id : r \in profiles}
    /\ s \in institutions
    /\ accounts' = accounts \cup {[profile |-> q, institution |-> s]}
    /\ UNCHANGED <<now, config, users, next_user_id, profiles, next_profile_id,
                   emails, institutions, locals>>

\* InstitutionAccount.institution: on_delete=CASCADE
DeleteInstitutionKeepAccounts(s) ==
    /\ s \in institutions
    /\ institutions' = institutions \ {s}
    /\ UNCHANGED <<now, config, users, next_user_id, profiles, next_profile_id,
                   emails, accounts, locals>>
DeleteInstitution(s) ==
    /\ s \in institutions
    /\ institutions' = institutions \ {s}
    /\ accounts' = {a \in accounts : a.institution # s}
    /\ UNCHANGED <<now, config, users, next_user_id, profiles, next_profile_id,
                   emails, locals>>

\* LinkedEmail.profile and InstitutionAccount.profile: on_delete=CASCADE
DeleteProfile(q) ==
    /\ q \in profiles
    /\ LET rows == CascadeOfProfiles({q})
       IN  /\ profiles' = profiles \ rows.profiles
           /\ emails' = emails \ rows.emails
           /\ accounts' = accounts \ rows.accounts
    /\ UNCHANGED <<now, config, users, next_user_id, next_profile_id,
                   institutions, locals>>

\* UserProfile.user: on_delete=CASCADE
DeleteUser(u) ==
    /\ u \in DOMAIN users
    /\ LET rows == CascadeOfUsers({u})
       IN  /\ users' = UsersWithout(rows)
           /\ profiles' = ProfilesWithout(rows)
           /\ emails' = EmailsWithout(rows)
           /\ accounts' = AccountsWithout(rows)
    /\ UNCHANGED <<now, config, next_user_id, next_profile_id, institutions,
                   locals>>

\* -------------------------------------------------------- specifications
\* What a request handler does once its save() has written the user row.
Receivers(p) ==
    \/ CreateProfile(p)
    \/ CreateEmail(p)
    \/ SweepSelect(p)
    \/ SweepDelete(p)

\* The user store's events, one at a time: each save() runs to completion
\* before the next starts (section 5's synchronous handling); the clock runs.
Serving == "r1"

EventsNext ==
    \/ Tick
    \/ \E tmp \in BOOLEAN, email \in Emails : CreateUser(Serving, tmp, email)
    \/ \E u \in UserIds, email \in Emails : UpdateUser(Serving, u, email)
    \/ Receivers(Serving)

SpecEvents == Init /\ [][EventsNext]_vars

\* User-created events, one at a time, and the store's failures.
FaultsNext ==
    \/ Tick
    \/ \E tmp \in BOOLEAN, email \in Emails : CreateUser(Serving, tmp, email)
    \/ Receivers(Serving)
    \/ CreateProfileFails(Serving)
    \/ CreateEmailFails(Serving)
    \/ SweepDeleteFails(Serving)

SpecFaults == Init /\ [][FaultsNext]_vars

\* User-created events, one at a time, and the flows that maintain the other
\* tables, which run between the statements of a save().
Next ==
    \/ Tick
    \/ \E tmp \in BOOLEAN, email \in Emails :
          next_user_id <= MaxLinkedUsers /\ CreateUser(Serving, tmp, email)
    \/ Receivers(Serving)
    \/ \E q \in 1..MaxUsers, addr \in Addresses : AddLinkedEmail(q, addr)
    \/ \E s \in Slugs : CreateInstitution(s)
    \/ \E q \in 1..MaxUsers, s \in Slugs : CreateAccount(q, s)
    \/ \E s \in Slugs : DeleteInstitution(s)
    \/ \E q \in profiles : DeleteProfile(q)
    \/ \E u \in UserIds : DeleteUser(u)

Spec == Init /\ [][Next]_vars

\* User-created events handled concurrently by the request handlers, with no
\* cross-event lock: their statements interleave.  The user model has
\* date_joined and the new users carry no email here, so a save() is the
\* INSERT, the profile and the sweep.  A request goes to r1 when r1 is free,
\* to r2 while r1 is busy (the handlers are interchangeable).  The tables
\* start with the user an earlier event left.
ConcurrentInit == SettledInit /\ has_date_joined

ConcurrentNext ==
    \/ Tick
    \/ \E tmp \in BOOLEAN : CreateUser("r1", tmp, "")
    \/ \E tmp \in BOOLEAN : pc["r1"] # "idle" /\ CreateUser("r2", tmp, "")
    \/ \E p \in Procs : CreateProfile(p)
    \/ \E p \in Procs : SweepSelect(p)
    \/ \E p \in Procs : SweepDelete(p)

SpecConcurrent == ConcurrentInit /\ [][ConcurrentNext]_vars


\* ------------------------------------------------------- shared notions
Day(t) == t \div TicksPerDay
WindowTicks == timeout_days * TicksPerDay
ProfilesOf(u) == {q \in profiles : q.user = u}
EmailsOf(q) == {e \in emails : e.profile = q}

\* Steps of handler p, told by what they do to p's position.
LeavesBootstrap(p) == pc[p] = "profile" /\ pc'[p] # "profile"
LeavesSeeding(p) == pc[p] = "email" /\ pc'[p] # "email"
LeavesSelect(p) == pc[p] = "sweep" /\ pc'[p] # "sweep"
LeavesDelete(p) == pc[p] = "delete" /\ pc'[p] # "delete"
\* The save() of handler p returns to its caller in this step.
Returns(p) == pc[p] # "idle" /\ pc'[p] = "idle"

\* ------------------------------------------------------------------- C1
\* C1: after any sequence of user-created and user-saved events, every user
\* has exactly one UserProfile, be it just after its creation event or after
\* any number of later saves; only while its creation event is still about to
\* run create_user_profile does a user have none.  No profile is without its
\* user.
C1_ExactlyOneProfile ==
    /\ \A u \in DOMAIN users :
          IF \E p \in Procs : pc[p] = "profile" /\ instance[p].id = u
          THEN ProfilesOf(u) = {}
          ELSE Cardinality(ProfilesOf(u)) = 1
    /\ \A q \in profiles : q.user \in DOMAIN users

\* Two users created, both events over, each with its one profile.
C1_Witness ==
    /\ pc[Serving] = "idle"
    /\ result[Serving] = "ok"
    /\ next_user_id > 2
    /\ {1, 2} \subseteq DOMAIN users
    /\ \A u \in {1, 2} : Cardinality(ProfilesOf(u)) = 1

\* ------------------------------------------------------------------- C2
\* C2: on a user-created event, create_user_profile goes on to seed an email
\* exactly when the instance's email is non-empty, and the seeding leaves a
\* LinkedEmail of the new profile with that address and is_verified = TRUE;
\* with an empty email it leaves the LinkedEmail table as it was, the new
\* profile having none.  LinkedEmail rows appear in no other step: a save()
\* of an existing user, whatever email it carries, adds none.
C2_SeededEmail ==
    [][/\ \A p \in Procs :
            /\ LeavesBootstrap(p) =>
                  /\ (instance[p].email # "") <=> (pc'[p] = "email")
                  /\ emails' = emails
                  /\ {e \in emails' : e.profile = next_profile_id} = {}
            /\ LeavesSeeding(p) =>
                  /\ [profile |-> profile[p], address |-> instance[p].email,
                      is_verified |-> TRUE] \in emails'
                  /\ instance[p].email # ""
                  /\ \E q \in profiles :
                        q.id = profile[p] /\ q.user = instance[p].id
                  /\ instance[p].id = next_user_id - 1
       /\ (emails' \ emails # {}) => \E p \in Procs : LeavesSeeding(p)
      ]_vars

\* A user created with an email: its profile holds the verified address and
\* the event has moved past seeding.
C2_Witness ==
    /\ pc[Serving] = "sweep"
    /\ instance[Serving].email = "a@x.com"
    /\ [profile |-> profile[Serving], address |-> "a@x.com", is_verified |-> TRUE]
          \in emails

\* ------------------------------------------------------------------- C3
\* C3: when the user model has date_joined, a user-created event that
\* completes leaves no user whose username starts with "tmp-" and whose
\* date_joined is strictly before midnight of the day `window` days before
\* the time its sweep read, and so none that was that old when the event
\* began; and every user-created event that completes has run its sweep.
C3_ExpiredTmpUsersGone ==
    [][\A p \in Procs :
          (has_date_joined /\ Returns(p) /\ result'[p] = "ok") =>
             /\ pc[p] = "delete"
             /\ sweep_now[p] >= instance[p].date_joined
             /\ \A u \in DOMAIN users :
                   (/\ users[u].tmp
                    /\ users[u].date_joined <
                          Day(sweep_now[p] - WindowTicks) * TicksPerDay)
                   => u \notin DOMAIN users'
      ]_vars

\* An event has completed and a tmp- user that had been created is gone.
C3_Witness ==
    /\ has_date_joined
    /\ pc[Serving] = "idle"
    /\ result[Serving] = "ok"
    /\ 1 \notin DOMAIN users
    /\ next_user_id > 2

\* ------------------------------------------------------------------- C4
\* C4 as claimed: a tmp- user whose date_joined falls on day D is deleted by
\* no sweep that runs (reads the time) on day D or on day D + 1, whatever the
\* retention window.
SweepSpares(p, u) == LeavesDelete(p) => u \in DOMAIN users'

C4_Original ==
    [][\A p \in Procs : \A u \in DOMAIN users :
          (users[u].tmp /\ Day(sweep_now[p]) <= Day(users[u].date_joined) + 1)
             => SweepSpares(p, u)
      ]_vars

\* C4 as amended: a tmp- user whose date_joined falls on day D is deleted by
\* no sweep that runs on day D, whatever the window, and by no sweep that
\* runs on day D + 1 when the window is at least one day.  (With a window of
\* 0 days the cutoff is today's midnight, and the sweep of day D + 1 takes
\* the user.)
C4_DayGrace ==
    [][\A p \in Procs : \A u \in DOMAIN users :
          /\ (users[u].tmp /\ Day(sweep_now[p]) <= Day(users[u].date_joined))
                => SweepSpares(p, u)
          /\ (/\ users[u].tmp
              /\ timeout_days >= 1
              /\ Day(sweep_now[p]) = Day(users[u].date_joined) + 1)
                => SweepSpares(p, u)
      ]_vars

\* A sweep that read the time on day D + 1, the window being a day or more,
\* has selected its rows and left out a tmp- user of day D.
C4_Witness ==
    /\ pc[Serving] = "delete"
    /\ timeout_days >= 1
    /\ \E u \in DOMAIN users :
          /\ users[u].tmp
          /\ Day(sweep_now[Serving]) = Day(users[u].date_joined) + 1
          /\ u \notin collected[Serving].users

\* ------------------------------------------------------------------- C5
\* C5: no step of any sequence of user events removes or changes a user
\* whose username does not start with "tmp-", however old it is; the sweep
\* selects no such user.
C5_NonTmpKept ==
    [][/\ \A u \in DOMAIN users :
             ~users[u].tmp => (u \in DOMAIN users' /\ users'[u] = users[u])
       /\ \A p \in Procs : \A u \in collected'[p].users :
             u \in DOMAIN users => users[u].tmp
      ]_vars

\* A sweep has deleted a tmp- user while a non-tmp user at least as old is
\* still there.
C5_Witness ==
    /\ pc[Serving] = "idle"
    /\ result[Serving] = "ok"
    /\ has_date_joined
    /\ 2 \notin DOMAIN users
    /\ 1 \in DOMAIN users
    /\ ~users[1].tmp
    /\ next_user_id > 3

\* ------------------------------------------------------------------- C6
\* C6: the sweep that reads the time `now` selects exactly the tmp- users
\* whose date_joined lies before midnight of the day `window` days before
\* now.  So a sweep deletes a tmp- user only if its age now - date_joined is
\* strictly more than the window, and a sweep that completes deletes every
\* tmp- user whose age is at least window + 1 days.
C6_Cutoff ==
    [][\A p \in Procs :
          /\ LeavesSelect(p) =>
                collected'[p].users =
                   {u \in DOMAIN users :
                       /\ users[u].tmp
                       /\ Day(users[u].date_joined) < Day(now) - timeout_days}
          /\ LeavesDelete(p) =>
                \A u \in DOMAIN users :
                   LET age == sweep_now[p] - users[u].date_joined
                   IN  /\ u \notin DOMAIN users' =>
                             users[u].tmp /\ age > WindowTicks
                       /\ (/\ users[u].tmp
                           /\ result'[p] = "ok"
                           /\ age >= WindowTicks + TicksPerDay)
                          => u \notin DOMAIN users'
      ]_vars

\* A sweep has selected its rows and left out a tmp- user that is older than
\* the window, the midnight floor giving it its grace.
C6_Witness ==
    /\ pc[Serving] = "delete"
    /\ \E u \in DOMAIN users :
          /\ users[u].tmp
          /\ sweep_now[Serving] - users[u].date_joined > WindowTicks
          /\ u \notin collected[Serving].users

\* ------------------------------------------------------------------- C7
\* C7: in every reachable state each UserProfile references an existing
\* user, each LinkedEmail an existing profile, and each InstitutionAccount an
\* existing profile and an existing institution: whatever deletes an
\* institution, a profile or a user (the retention sweep included) deletes
\* the rows that hang on it.
C7_NoDanglingRows ==
    /\ \A q \in profiles : q.user \in DOMAIN users
    /\ \A e \in emails : \E q \in profiles : q.id = e.profile
    /\ \A a \in accounts :
          /\ \E q \in profiles : q.id = a.profile
          /\ a.institution \in institutions

\* A user is gone, deleted with what hung on it, and another user's profile
\* still has its linked email and its institution account.
C7_Witness ==
    /\ 1 \notin DOMAIN users
    /\ next_profile_id > 2
    /\ \E q \in profiles :
          /\ q.user = 2
          /\ EmailsOf(q.id) # {}
          /\ \E a \in accounts : a.profile = q.id

\* ------------------------------------------------------------------- C8
\* The bulk delete of handler p's sweep fails in this step: rows it had
\* collected are still there and stay.
BulkDeleteFails(p) ==
    /\ LeavesDelete(p)
    /\ collected[p].users \cap DOMAIN users # {}
    /\ users' = users

\* C8 as claimed: a failure of the sweep's bulk delete is not surfaced, the
\* user-created event completing successfully.
C8_Original ==
    [][\A p \in Procs : BulkDeleteFails(p) => result'[p] = "ok"]_vars

\* C8 as amended: a failure of the sweep's bulk delete is surfaced to the
\* caller of the user creation (the exception leaves the receiver and
\* save()); the new user's profile and seeded email stay persisted and no
\* row is deleted, the failed sweep is not retried within that event, and a
\* later user-created event whose sweep completes deletes the expired tmp-
\* users that were left behind.
C8_SweepFailureSurfaces ==
    [][\A p \in Procs :
          /\ BulkDeleteFails(p) =>
                /\ result'[p] = "raised"
                /\ pc'[p] = "idle"
                /\ UNCHANGED <<users, profiles, emails, accounts>>
                /\ instance[p].id \in DOMAIN users =>
                      /\ Cardinality(ProfilesOf(instance[p].id)) = 1
                      /\ instance[p].email # "" =>
                            [profile |-> profile[p], address |-> instance[p].email,
                             is_verified |-> TRUE] \in emails
          /\ LeavesDelete(p) => pc'[p] = "idle"
          /\ (LeavesDelete(p) /\ result'[p] = "ok") =>
                \A u \in DOMAIN users :
                   (/\ users[u].tmp
                    /\ Day(users[u].date_joined) < Day(sweep_now[p]) - timeout_days)
                   => u \notin DOMAIN users'
      ]_vars

\* The last event raised after its profile and its email were persisted, so
\* in its sweep: the caller saw the exception, an expired tmp- user is still
\* there, and so are the new user, its profile and its seeded email.
C8_Witness ==
    /\ result[Serving] = "raised"
    /\ pc[Serving] = "idle"
    /\ \E u \in DOMAIN users :
          /\ users[u].tmp
          /\ Day(users[u].date_joined) < Day(now) - timeout_days
          /\ u < next_user_id - 1
    /\ (next_user_id - 1) \in DOMAIN users
    /\ \E q \in ProfilesOf(next_user_id - 1) :
          [profile |-> q.id, address |-> "a@x.com", is_verified |-> TRUE] \in emails

\* ------------------------------------------------------------------- C9
\* The order of the reactions within one save().
ReactionOrder ==
    {<<"idle", "profile">>, <<"profile", "email">>, <<"profile", "sweep">>,
     <<"profile", "idle">>, <<"email", "sweep">>, <<"email", "idle">>,
     <<"sweep", "delete">>, <<"delete", "idle">>}

\* C9: within one user-created event the reactions run once and in the
\* order profile bootstrap, verified-email seeding, retention sweep.  A
\* failure to persist the profile is surfaced to the caller: no LinkedEmail
\* is created, nothing is deleted and the event's later reactions do not run.
\* A failure to persist the seeded email is surfaced too, and the sweep does
\* not run.
C9_OrderAndPropagation ==
    [][\A p \in Procs :
          /\ pc'[p] # pc[p] => <<pc[p], pc'[p]>> \in ReactionOrder
          /\ (LeavesBootstrap(p) /\ profiles' = profiles) =>
                /\ pc'[p] = "idle"
                /\ result'[p] = "raised"
                /\ UNCHANGED <<users, emails, accounts>>
          /\ (LeavesSeeding(p) /\ emails' = emails) =>
                /\ pc'[p] = "idle"
                /\ result'[p] = "raised"
                /\ UNCHANGED <<users, profiles, accounts>>
          /\ (pc'[p] # pc[p] /\ pc'[p] \in {"email", "sweep"}) =>
                /\ Cardinality({q \in profiles' : q.user = instance[p].id}) = 1
                /\ result'[p] = "none"
          /\ (Returns(p) /\ result'[p] = "ok" /\ has_date_joined) =>
                pc[p] = "delete"
      ]_vars

\* The profile of the last event could not be persisted: the caller saw the
\* exception, the new user is there without profile and without LinkedEmail.
C9_Witness ==
    /\ result[Serving] = "raised"
    /\ pc[Serving] = "idle"
    /\ (next_user_id - 1) \in DOMAIN users
    /\ ProfilesOf(next_user_id - 1) = {}
    /\ emails = {}
    /\ next_user_id = 2

\* ------------------------------------------------------------------ C10
\* Handler p's save() raises in this step.
Raises(p) == Returns(p) /\ result'[p] \notin {"none", "ok"}

\* User u is expired for the sweep that read the time t.
ExpiredAt(u, t) ==
    users[u].tmp /\ Day(users[u].date_joined) < Day(t) - timeout_days

====
